---- MODULE Spec2Model ----
(***************************************************************************)
(* Model of the fust client: the frame codec and the request / push       *)
(* channels (src/rpc.rs), the progress clock (src/player.rs) and the       *)
(* lock-protected state store with its two writers and its reader          *)
(* (src/app.rs).                                                           *)
(*                                                                         *)
(* Three specifications share the definitions below:                       *)
(*   SpecClock  the Progress clock driven by direct calls                  *)
(*   SpecRpc    read_response and its two callers over byte streams        *)
(*   SpecSys    sync_player_status, subscribe_signals and ui sharing the   *)
(*              Mutex<AppInner>                                            *)
(***************************************************************************)
EXTENDS Integers, Sequences, FiniteSets, TLC

VARIABLES
    now,        \* SystemTime::now(), in whole time units
    progress,   \* SpecClock: a Progress value driven by direct calls
    lastOp,     \* SpecClock: the last mutating call, [op, at, pos, paused]
    prevOp,     \* SpecClock: the mutating call before lastOp
    lastRead,   \* SpecClock: <<v>> for the last current() read since lastOp, or NoRead
    caller,     \* SpecRpc: the operation under test
    wire,       \* SpecRpc: what the peer does: [connect, greet, frames, topics]
    stream,     \* SpecRpc: the bytes sent by the peer and not yet consumed
    rpcPc,      \* SpecRpc: "start", "acks", "loop", "done" (returned) or "panicked"
    frame,      \* SpecRpc: what the most recent read_response call produced
    avail,      \* SpecRpc: the bytes that were available to that call
    decoded,    \* SpecRpc: the frames read_response has returned, in order
    result,     \* SpecRpc: the value send_request returned
    acksLeft,   \* SpecRpc: iterations left of the acknowledgement loop
    delivered,  \* SpecRpc: the messages passed to the callback, in order
    inner,      \* SpecSys: the AppInner behind the Mutex
    lock,       \* SpecSys: the thread holding the MutexGuard, or "free"
    poisoned,   \* SpecSys: the thread that panicked holding the guard, or "no"
    syncPc,     \* SpecSys: where the caller of sync_player_status is
    poll,       \* SpecSys: the status body being applied by sync_player_status
    muxPc,      \* SpecSys: where the subscribe_signals thread is
    msg,        \* SpecSys: the message on_message was called with
    uiPc,       \* SpecSys: where the thread drawing the ui is
    snap,       \* SpecSys: the values ui copied out under the lock
    stable,     \* SpecSys: inner as the last completed application left it
    lastBy      \* SpecSys: the last application that completed and released the lock

clockVars == <<progress, lastOp, prevOp, lastRead>>

rpcVars == <<caller, wire, stream, rpcPc, frame, avail, decoded, result,
             acksLeft, delivered>>

sysVars == <<inner, lock, poisoned, syncPc, poll, muxPc, msg, uiPc, snap,
             stable, lastBy>>

vars == <<now, clockVars, rpcVars, sysVars>>

\* Bounds of the model.
MaxTime == 3
MaxPos == 2
MaxBody == 2
MaxFrames == 4
MaxSysTime == 2
MaxSysPos == 1

Positions == 0..MaxPos
SysPositions == 0..MaxSysPos

NoRead == <<>>

-----------------------------------------------------------------------------
(* Progress clock: src/player.rs 44-90 (same code in src/app.rs 125-172)    *)

\* Progress::default(): anchored at the construction time, position 0, playing.
ProgressDefault(t) ==
    [ts |-> t, position |-> 0, paused |-> FALSE, paused_ts |-> t]

\* SystemTime::elapsed(): the time since the anchor.  It is an Err (and the
\* unwrap in current() panics) when the clock went backwards; time only
\* moves forward here, so the difference is taken as the code takes it.
elapsed(p, t) == t - p.ts

elapsed_swapped(p, t) == p.ts - t

\* Progress::current
current_unfrozen(p, t) == p.position + elapsed(p, t)

current_backwards(p, t) ==
    IF p.paused THEN p.position ELSE p.position + elapsed_swapped(p, t)

current(p, t) ==
    IF p.paused THEN p.position ELSE p.position + elapsed(p, t)

\* Progress::on_seeked
on_seeked_keeps_anchor_time(p, t, position) ==
    [p EXCEPT !.position = position]

on_seeked(p, t, position) ==
    [p EXCEPT !.ts = t, !.position = position]

\* Progress::pause
pause_anchor_first(p, t) ==
    [p EXCEPT !.paused_ts = t,
              !.ts = t,
              !.paused = TRUE]

pause(p, t) ==
    [p EXCEPT !.position = current(p, t),
              !.paused_ts = t,
              !.ts = t,
              !.paused = TRUE]

\* Progress::resume
resume(p, t) ==
    [p EXCEPT !.position = current(p, t),
              !.ts = t,
              !.paused = FALSE]

-----------------------------------------------------------------------------
(* Frame codec: read_response, src/rpc.rs 22-51 (same code in               *)
(* src/app.rs 53-85).  A byte is a one-character string, a stream is the    *)
(* sequence of bytes the peer has sent and the reader has not consumed;     *)
(* the end of the sequence is the end of the stream.                        *)

\* A byte that is not valid UTF-8 on its own.
InvalidByte == "xFF"

\* char::is_whitespace on the bytes of the model.
Whitespace == {" ", "\t", "\r", "\n"}

Digits == <<"0", "1", "2", "3", "4", "5", "6", "7", "8", "9">>

IsDigit(c) == \E d \in 1..10 : Digits[d] = c

DigitVal(c) == (CHOOSE d \in 1..10 : Digits[d] = c) - 1

\* char::to_lowercase on the letters of the model.
LowerChar(c) ==
    CASE c = "A" -> "a" [] c = "C" -> "c" [] c = "K" -> "k" [] c = "O" -> "o"
      [] c = "M" -> "m" [] c = "S" -> "s" [] c = "G" -> "g" [] c = "N" -> "n"
      [] OTHER -> c

\* str::to_lowercase
to_lowercase_identity(w) == w

to_lowercase(w) == [i \in 1..Len(w) |-> LowerChar(w[i])]

\* BufRead::read_line: the bytes up to and including the first "\n", or all
\* the bytes left when the stream ends before one.  bad: the line is not
\* valid UTF-8 (read_line returns Err and the caller's unwrap panics).
read_line(s) ==
    LET hasNl == \E i \in 1..Len(s) : s[i] = "\n"
        end == IF hasNl
               THEN CHOOSE i \in 1..Len(s) :
                        /\ s[i] = "\n"
                        /\ \A j \in 1..(i - 1) : s[j] # "\n"
               ELSE Len(s)
        line == SubSeq(s, 1, end)
    IN  [line |-> line,
         rest |-> SubSeq(s, end + 1, Len(s)),
         bad |-> \E i \in 1..Len(line) : line[i] = InvalidByte]

\* str::split_whitespace: the maximal runs of non-whitespace characters.
split_whitespace(s) ==
    LET RECURSIVE go(_, _, _)
        go(i, cur, acc) ==
            IF i > Len(s)
            THEN IF cur = <<>> THEN acc ELSE Append(acc, cur)
            ELSE IF s[i] \in Whitespace
                 THEN go(i + 1, <<>>, IF cur = <<>> THEN acc ELSE Append(acc, cur))
                 ELSE go(i + 1, Append(cur, s[i]), acc)
    IN  go(1, <<>>, <<>>)

\* str::parse::<usize>: an optional "+" followed by one or more decimal
\* digits (the values of the model stay far below usize::MAX).
parse_usize(w) ==
    LET ds == IF Len(w) > 0 /\ w[1] = "+" THEN Tail(w) ELSE w
        RECURSIVE val(_, _)
        val(i, acc) == IF i > Len(ds) THEN acc
                       ELSE val(i + 1, acc * 10 + DigitVal(ds[i]))
    IN  IF Len(ds) > 0 /\ \A i \in 1..Len(ds) : IsDigit(ds[i])
        THEN [ok |-> TRUE, val |-> val(1, 0)]
        ELSE [ok |-> FALSE, val |-> 0]

\* Read::read_exact: n bytes, or Err(UnexpectedEof) when the stream ends
\* before n bytes have arrived (what was read is lost with the buffer).
read_exact_leaves_trailer(s, n) ==
    IF Len(s) >= n - 2
    THEN [ok |-> TRUE, buf |-> SubSeq(s, 1, n - 2),
          rest |-> SubSeq(s, n - 1, Len(s))]
    ELSE [ok |-> FALSE, buf |-> <<>>, rest |-> <<>>]

read_exact(s, n) ==
    IF Len(s) >= n
    THEN [ok |-> TRUE, buf |-> SubSeq(s, 1, n), rest |-> SubSeq(s, n + 1, Len(s))]
    ELSE [ok |-> FALSE, buf |-> <<>>, rest |-> <<>>]

\* Vec::truncate(body_len), rpc.rs 35
truncate_not(buf, n) == buf

truncate(buf, n) == SubSeq(buf, 1, n)

\* The token after the tag: words.next() after the tag was taken, rpc.rs 44, 48
second_word_before_length(words) == words[Len(words) - 1]

second_word(words) == words[2]

T_ack == <<"a", "c", "k">>
T_ok == <<"o", "k">>

NoFrame == [kind |-> "None", ok |-> FALSE, topic |-> <<>>, body |-> <<>>, err |-> ""]

Failure(kind, err, rest) ==
    [res |-> [NoFrame EXCEPT !.kind = kind, !.err = err], rest |-> rest]

\* read_response: [res, rest], res.kind one of
\*   "Response" (ok, body), "Message" (topic, body),
\*   "Err" (the io::Error returned as a value: err "Disconnected" or
\*          "UnexpectedEof"),
\*   "Panic" (an unwrap() on Err or None; err names the unwrap).
read_response(s) ==
    LET rl == read_line(s)
        words == split_whitespace(rl.line)
        len == parse_usize(words[Len(words)])
        rd == read_exact(rl.rest, len.val + 2)
        body == truncate(rd.buf, len.val)
    IN  IF rl.bad THEN Failure("Panic", "read_line", rl.rest)
        ELSE IF Len(rl.line) = 0 THEN Failure("Err", "Disconnected", rl.rest)
        ELSE IF Len(words) = 0 THEN Failure("Panic", "no tag", rl.rest)
        ELSE IF Len(words) = 1 THEN Failure("Panic", "no length", rl.rest)
        ELSE IF ~len.ok THEN Failure("Panic", "parse length", rl.rest)
        ELSE IF ~rd.ok THEN Failure("Err", "UnexpectedEof", rd.rest)
        ELSE IF to_lowercase(words[1]) = T_ack
        THEN [res |-> [NoFrame EXCEPT !.kind = "Response",
                                      !.ok = (to_lowercase(second_word(words)) = T_ok),
                                      !.body = body],
              rest |-> rd.rest]
        ELSE [res |-> [NoFrame EXCEPT !.kind = "Message",
                                      !.topic = second_word(words),
                                      !.body = body],
              rest |-> rd.rest]

-----------------------------------------------------------------------------
(* State store: AppInner and its two writers, src/app.rs 174-226, 300-348   *)

\* PlayerState, player.rs 8-12
Stopped == "Stopped"
Paused == "Paused"
Playing == "Playing"

\* PlayerState::try_from(u64), player.rs 14-25
try_from(v) ==
    CASE v = 0 -> [ok |-> TRUE, state |-> Stopped]
      [] v = 1 -> [ok |-> TRUE, state |-> Paused]
      [] v = 2 -> [ok |-> TRUE, state |-> Playing]
      [] OTHER -> [ok |-> FALSE, state |-> Stopped]

\* PlayerMetadata, player.rs 27-42
Metadata(title, artists, album) ==
    [title |-> title, artists |-> artists, album |-> album]

MetadataNew == Metadata("", <<"">>, "")

\* App::new, app.rs 301-311
AppInnerNew(t) ==
    [metadata |-> MetadataNew,
     lyric_s |-> "no lyric",
     progress |-> ProgressDefault(t),
     duration |-> 0,
     state |-> Stopped]

\* A message body as on_message sees it: bytes that are not UTF-8, the empty
\* string, text that is not JSON, or a JSON array of items.  An item is a
\* number n, a string s, or a PlayerMetadata object whose three fields are
\* built from s.
Item(t, n, str) == [t |-> t, n |-> n, s |-> str]
Num(n) == Item("num", n, "")
Str(x) == Item("str", 0, x)
Meta(x) == Item("meta", 0, x)
Null == Item("null", 0, "")

Body(form, items) == [form |-> form, items |-> items]
Arr(items) == Body("array", items)

\* serde_json::Value indexing: value[0] is Null when there is no such element.
value_at(body, i) == IF Len(body.items) >= i THEN body.items[i] ELSE Null

\* serde_json::from_str::<(T,)>: a JSON array of exactly one T.
is_tuple_of(body, t) ==
    /\ body.form = "array"
    /\ Len(body.items) = 1
    /\ body.items[1].t = t

MetadataOf(item) == Metadata(item.s, <<item.s>>, item.s)

Applied(in) == [panic |-> FALSE, inner |-> in]
Panicked(in) == [panic |-> TRUE, inner |-> in]

\* The clock transition of player.state_changed, app.rs 194-198
state_changed_progress_stopped_pauses(state, p, t) ==
    CASE state = Paused -> pause(p, t)
      [] state = Stopped -> pause(p, t)
      [] state = Playing -> resume(p, t)

state_changed_progress(state, p, t) ==
    CASE state = Paused -> pause(p, t)
      [] state = Stopped -> on_seeked(p, t, 0)
      [] state = Playing -> resume(p, t)

\* player.metadata_changed, app.rs 203-207
metadata_changed_keeps_position(in, item, t) ==
    [in EXCEPT !.metadata = MetadataOf(item)]

metadata_changed(in, item, t) ==
    [in EXCEPT !.metadata = MetadataOf(item),
               !.progress = on_seeked(in.progress, t, 0)]

\* player.duration_changed, app.rs 208-211
duration_changed_reseeks(in, item, t) ==
    [in EXCEPT !.duration = item.n,
               !.progress = on_seeked(in.progress, t, 0)]

duration_changed(in, item, t) == [in EXCEPT !.duration = item.n]

\* player.state_changed, app.rs 188-202: [panic, inner].  The body is
\* parsed, value[0] read as u64 and converted with try_from before state
\* is assigned; an unknown code ends in panic!("unknown player state").
state_changed_assigns_first(in, body, t) ==
    LET v == value_at(body, 1)
        st == try_from(v.n)
    IN  IF body.form # "array" \/ v.t # "num" \/ v.n < 0
        THEN Panicked(in)
        ELSE IF ~st.ok
        THEN Panicked([in EXCEPT !.state = st.state])
        ELSE Applied([in EXCEPT
                !.state = st.state,
                !.progress = state_changed_progress(st.state, in.progress, t)])

state_changed(in, body, t) ==
    LET v == value_at(body, 1)
        st == try_from(v.n)
    IN  IF body.form # "array" \/ v.t # "num" \/ v.n < 0 \/ ~st.ok
        THEN Panicked(in)
        ELSE Applied([in EXCEPT
                !.state = st.state,
                !.progress = state_changed_progress(st.state, in.progress, t)])

\* AppInner::on_message, app.rs 185-225: [panic, inner].  Every unwrap()
\* and the panic! come before the first assignment of their branch.
on_message(in, m, t) ==
    LET body == m.body
        v == value_at(body, 1)
    IN  IF body.form = "nonutf8" THEN Panicked(in)
        ELSE CASE m.topic = "player.state_changed" -> state_changed(in, body, t)
               [] m.topic = "player.metadata_changed" ->
                    IF ~is_tuple_of(body, "meta") THEN Panicked(in)
                    ELSE Applied(metadata_changed(in, body.items[1], t))
               [] m.topic = "player.duration_changed" ->
                    IF ~is_tuple_of(body, "num") \/ v.n < 0 THEN Panicked(in)
                    ELSE Applied(duration_changed(in, v, t))
               [] m.topic = "player.seeked" ->
                    IF ~is_tuple_of(body, "num") \/ v.n < 0 THEN Panicked(in)
                    ELSE Applied([in EXCEPT !.progress = on_seeked(in.progress, t, v.n)])
               [] m.topic = "live_lyric.sentence_changed" ->
                    IF body.form = "empty" THEN Applied(in)
                    ELSE IF ~is_tuple_of(body, "str") THEN Panicked(in)
                    ELSE Applied([in EXCEPT !.lyric_s = v.s])
               [] OTHER -> Applied(in)

\* sync_player_status, app.rs 329-331: the writes before the state match
sync_apply_fields_no_seek(in, pl, t) ==
    [in EXCEPT !.metadata = Metadata(pl.song.title, <<pl.song.artists_name>>,
                                     pl.song.album_name),
               !.duration = pl.duration]

sync_apply_fields(in, pl, t) ==
    [in EXCEPT !.metadata = Metadata(pl.song.title, <<pl.song.artists_name>>,
                                     pl.song.album_name),
               !.progress = on_seeked(in.progress, t, pl.position),
               !.duration = pl.duration]

\* sync_player_status, app.rs 332-346: the match on value["state"].
\*   "done"     one of the three known strings: state and clock are set
\*   "panic"    the field is missing or not a string: as_str().unwrap()
\*   "relock"   any other string: self.inner.lock() is called again by the
\*              thread that holds the guard, which never returns (it
\*              deadlocks or panics, std::sync::Mutex leaves open which)
sync_apply_state(in, st, t) ==
    CASE st = "paused" ->
            [how |-> "done",
             inner |-> [in EXCEPT !.state = Paused, !.progress = pause(in.progress, t)]]
      [] st = "stopped" ->
            [how |-> "done",
             inner |-> [in EXCEPT !.state = Stopped, !.progress = pause(in.progress, t)]]
      [] st = "playing" ->
            [how |-> "done",
             inner |-> [in EXCEPT !.state = Playing, !.progress = resume(in.progress, t)]]
      [] st = "missing" -> [how |-> "panic", inner |-> in]
      [] OTHER -> [how |-> "relock", inner |-> in]

\* ui, app.rs 378-383: the values copied out of the guard
snapshot(in, t) ==
    [metadata |-> in.metadata,
     lyric_s |-> in.lyric_s,
     position |-> current(in.progress, t),
     duration |-> in.duration,
     state |-> in.state]

\* Mutex::lock returns once no other guard exists.
can_lock_anytime(l) == TRUE

can_lock(l) == l = "free"

\* The MutexGuard is dropped: app.rs 289 (end of statement), 347 (end of
\* block), 384 (drop)
guard_kept(l) == l

guard_dropped(l) == "free"

-----------------------------------------------------------------------------
(* SpecClock: any sequence of on_seeked / pause / resume / current calls    *)
(* interleaved with the forward passage of time.                            *)

NoOp == [op |-> "none", at |-> 0, pos |-> 0, paused |-> FALSE]

ClockAtRest ==
    /\ progress = ProgressDefault(0)
    /\ lastOp = NoOp
    /\ prevOp = NoOp
    /\ lastRead = NoRead

NoWire == [connect |-> FALSE, greet |-> FALSE, frames |-> <<>>, topics |-> 0]

RpcAtRest ==
    /\ caller = "none"
    /\ wire = NoWire
    /\ stream = <<>>
    /\ rpcPc = "done"
    /\ frame = NoFrame
    /\ avail = 0
    /\ decoded = <<>>
    /\ result = NoFrame
    /\ acksLeft = 0
    /\ delivered = <<>>

NoPoll == [song |-> [title |-> "", album_name |-> "", artists_name |-> ""],
           position |-> 0, duration |-> 0, state |-> ""]
NoMsg == [topic |-> "", body |-> Body("none", <<>>)]
NoSnap == [metadata |-> MetadataNew, lyric_s |-> "", position |-> 0,
           duration |-> 0, state |-> "none"]

NoWriter == [by |-> "none", p |-> 0, st |-> ""]

SysAtRest ==
    /\ inner = AppInnerNew(0)
    /\ lock = "free"
    /\ poisoned = "no"
    /\ syncPc = "idle"
    /\ poll = NoPoll
    /\ muxPc = "start"
    /\ msg = NoMsg
    /\ uiPc = "idle"
    /\ snap = NoSnap
    /\ stable = AppInnerNew(0)
    /\ lastBy = NoWriter

InitClock ==
    /\ now = 0
    /\ ClockAtRest
    /\ RpcAtRest
    /\ SysAtRest

ClockTick ==
    /\ now < MaxTime
    /\ now' = now + 1
    /\ UNCHANGED <<clockVars, rpcVars, sysVars>>

Called(op, position) ==
    /\ prevOp' = lastOp
    /\ lastOp' = [op |-> op, at |-> now, pos |-> position,
                  paused |-> progress.paused]
    /\ lastRead' = NoRead
    /\ UNCHANGED <<now, rpcVars, sysVars>>

ClockOnSeeked ==
    \E p \in Positions :
        /\ progress' = on_seeked(progress, now, p)
        /\ Called("on_seeked", p)

ClockPause ==
    /\ progress' = pause(progress, now)
    /\ Called("pause", 0)

ClockResume ==
    /\ progress' = resume(progress, now)
    /\ Called("resume", 0)

ClockRead ==
    /\ lastRead' = <<current(progress, now)>>
    /\ UNCHANGED <<now, progress, lastOp, prevOp, rpcVars, sysVars>>

NextClock ==
    \/ ClockTick
    \/ ClockOnSeeked
    \/ ClockPause
    \/ ClockResume
    \/ ClockRead

SpecClock == InitClock /\ [][NextClock]_vars

-----------------------------------------------------------------------------
(* SpecRpc: read_response called directly, by send_request and by           *)
(* subscribe_topics, on the byte streams a peer can send.                   *)

T_ACK == <<"A", "C", "K">>
T_AcK == <<"A", "c", "K">>
T_MSG == <<"M", "S", "G">>
T_msg == <<"m", "s", "g">>
T_NAK == <<"N", "A", "K">>
T_OK == <<"O", "K">>
T_Ok == <<"O", "k">>
T_KO == <<"K", "O">>
T_okk == <<"o", "k", "k">>
T_seeked == <<"p", ".", "s">>
T_lyric == <<"l", ".", "s">>
T_x == <<"x">>
T_7 == <<"7">>

AckTags == {T_ACK, T_ack, T_AcK}
MsgTags == {T_MSG, T_msg}
OkTokens == {T_OK, T_ok, T_Ok}
TopicTokens == {T_seeked, T_lyric}

CRLF == <<"\r", "\n">>
Greeting == <<"O", "K", " ", "h", "i", "\n">>

BodyBytes == {"h", "\n", InvalidByte}
Bodies == UNION {[1..k -> BodyBytes] : k \in 0..MaxBody}

RECURSIVE Decimal(_)
Decimal(n) == IF n < 10 THEN <<Digits[n + 1]>>
              ELSE Append(Decimal(n \div 10), Digits[(n % 10) + 1])

\* The length token of a frame description: the body length as the peer
\* may write it, or something that is not its length.
LenKinds == {"exact", "plus", "padded", "bad", "negative", "over", "none"}

LenTokens(f) ==
    CASE f.len = "exact" -> <<Decimal(Len(f.body))>>
      [] f.len = "plus" -> <<<<"+">> \o Decimal(Len(f.body))>>
      [] f.len = "padded" -> <<<<"0">> \o Decimal(Len(f.body))>>
      [] f.len = "bad" -> <<T_x>>
      [] f.len = "negative" -> <<<<"-">> \o Decimal(Len(f.body))>>
      [] f.len = "over" -> <<Decimal(Len(f.body) + 9)>>
      [] f.len = "none" -> <<>>

\* The header tokens of a frame description, in order.
HeaderTokens(f) ==
    <<f.tag>> \o (IF f.second = <<>> THEN <<>> ELSE <<f.second>>)
              \o f.extra \o LenTokens(f)

RECURSIVE Join(_, _)
Join(toks, sep) ==
    IF toks = <<>> THEN <<>>
    ELSE IF Len(toks) = 1 THEN toks[1]
    ELSE toks[1] \o sep \o Join(Tail(toks), sep)

\* The bytes of a frame as the peer sends them.
Encode(f) == Join(HeaderTokens(f), f.sep) \o f.eol \o f.body \o f.trail

RECURSIVE EncodeAll(_)
EncodeAll(fs) == IF fs = <<>> THEN <<>> ELSE Encode(Head(fs)) \o EncodeAll(Tail(fs))

WireBytes(w) == (IF w.greet THEN Greeting ELSE <<>>) \o EncodeAll(w.frames)

Styles == {[sep |-> <<" ">>, eol |-> CRLF], [sep |-> <<"\t", " ">>, eol |-> <<"\n">>]}

FrameOf(tag, second, extra, len, style, body, trail) ==
    [tag |-> tag, second |-> second, extra |-> extra, len |-> len,
     sep |-> style.sep, eol |-> style.eol, body |-> body, trail |-> trail]

\* Frame descriptions for one decode: every tag, status or topic, extra
\* tokens, length spelling, separator, body and trailer.
RichFrames ==
    {FrameOf(tag, second, extra, len, style, body, trail) :
        tag \in AckTags \cup MsgTags \cup {T_NAK},
        second \in OkTokens \cup TopicTokens \cup {T_KO, T_okk, <<>>},
        extra \in {<<>>, <<T_OK>>, <<T_x, T_7>>},
        len \in LenKinds,
        style \in Styles,
        body \in Bodies,
        trail \in {CRLF, <<"z", "z">>}}

\* Frame descriptions for streams of several frames.
PlainStyle == [sep |-> <<" ">>, eol |-> CRLF]

SmallFrames ==
    {FrameOf(T_ACK, T_OK, <<>>, "exact", PlainStyle, <<>>, CRLF),
     FrameOf(T_ACK, T_KO, <<>>, "exact", PlainStyle, <<"h">>, CRLF),
     FrameOf(T_MSG, T_seeked, <<>>, "exact", PlainStyle, <<"h">>, CRLF),
     FrameOf(T_MSG, T_lyric, <<T_x>>, "exact", PlainStyle, <<"\n">>, <<"z", "z">>),
     FrameOf(T_MSG, T_seeked, <<>>, "bad", PlainStyle, <<"h">>, CRLF),
     FrameOf(T_MSG, T_seeked, <<>>, "over", PlainStyle, <<"h">>, CRLF)}

SeqsUpTo(S, n) == UNION {[1..k -> S] : k \in 0..n}

\* A frame description the wire format of the protocol allows: tag, status
\* or topic, optional extra tokens, the body length, then the body and two
\* trailing bytes.
ValidFrame(f) ==
    /\ f.second # <<>>
    /\ f.len \in {"exact", "plus", "padded"}
    /\ Len(f.trail) = 2

InitRpc ==
    /\ now = 0
    /\ ClockAtRest
    /\ SysAtRest
    /\ \/ /\ caller = "read_response"
          /\ \E fs \in {<<f>> : f \in RichFrames}
                          \cup SeqsUpTo(SmallFrames, MaxFrames) :
                wire = [connect |-> TRUE, greet |-> FALSE, frames |-> fs, topics |-> 0]
       \/ /\ caller = "send_request"
          /\ \E c \in BOOLEAN, g \in BOOLEAN, fs \in SeqsUpTo(SmallFrames, 1) :
                wire = [connect |-> c, greet |-> g, frames |-> fs, topics |-> 0]
       \/ /\ caller = "subscribe_topics"
          /\ \E c \in BOOLEAN, g \in BOOLEAN, fs \in SeqsUpTo(SmallFrames, MaxFrames),
                n \in 1..2 :
                wire = [connect |-> c, greet |-> g, frames |-> fs, topics |-> n]
    /\ stream = WireBytes(wire)
    /\ rpcPc = "start"
    /\ frame = NoFrame
    /\ avail = 0
    /\ decoded = <<>>
    /\ result = NoFrame
    /\ acksLeft = 0
    /\ delivered = <<>>

IsFrame(res) == res.kind \in {"Response", "Message"}

\* One read_response call on the stream, recorded.
Decode(r) ==
    /\ frame' = r.res
    /\ avail' = Len(stream)
    /\ stream' = r.rest
    /\ decoded' = IF IsFrame(r.res) THEN Append(decoded, r.res) ELSE decoded

\* read_response called directly: rpc.rs 22-51
ReadResponse ==
    /\ caller = "read_response"
    /\ rpcPc = "start"
    /\ LET r == read_response(stream)
       IN  /\ Decode(r)
           /\ rpcPc' = CASE r.res.kind = "Panic" -> "panicked"
                         [] r.res.kind = "Err" -> "done"
                         [] OTHER -> "start"
           /\ result' = r.res
    /\ UNCHANGED <<now, clockVars, sysVars, caller, wire, acksLeft, delivered>>

\* send_request: rpc.rs 53-80
SendRequest ==
    /\ caller = "send_request"
    /\ rpcPc = "start"
    /\ IF ~wire.connect
       THEN /\ result' = [NoFrame EXCEPT !.kind = "Err", !.err = "connect"]
            /\ rpcPc' = "done"
            /\ UNCHANGED <<stream, frame, avail, decoded>>
       ELSE LET g == read_line(stream)
                r == read_response(g.rest)
            IN  IF g.bad
                THEN /\ rpcPc' = "panicked"
                     /\ stream' = g.rest
                     /\ UNCHANGED <<frame, avail, decoded, result>>
                ELSE /\ frame' = r.res
                     /\ avail' = Len(g.rest)
                     /\ stream' = r.rest
                     /\ decoded' = IF IsFrame(r.res) THEN Append(decoded, r.res)
                                   ELSE decoded
                     /\ rpcPc' = IF r.res.kind \in {"Response", "Err"}
                                 THEN "done" ELSE "panicked"
                     /\ result' = IF r.res.kind \in {"Response", "Err"}
                                  THEN r.res ELSE result
    /\ UNCHANGED <<now, clockVars, sysVars, caller, wire, acksLeft, delivered>>

\* subscribe_topics, connect to flush: rpc.rs 83-107
SubConnect ==
    /\ caller = "subscribe_topics"
    /\ rpcPc = "start"
    /\ IF ~wire.connect
       THEN /\ rpcPc' = "done"
            /\ UNCHANGED <<stream, acksLeft>>
       ELSE LET g == read_line(stream)
            IN  /\ stream' = g.rest
                /\ IF g.bad
                   THEN /\ rpcPc' = "panicked"
                        /\ UNCHANGED acksLeft
                   ELSE /\ rpcPc' = "acks"
                        /\ acksLeft' = 1 + wire.topics
    /\ UNCHANGED <<now, clockVars, sysVars, caller, wire, frame, avail, decoded, result,
                   delivered>>

\* subscribe_topics, one iteration of the acknowledgement loop: rpc.rs 108-110
SubAck ==
    /\ caller = "subscribe_topics"
    /\ rpcPc = "acks"
    /\ LET r == read_response(stream)
       IN  /\ Decode(r)
           /\ IF IsFrame(r.res)
              THEN /\ acksLeft' = acksLeft - 1
                   /\ rpcPc' = IF acksLeft = 1 THEN "loop" ELSE "acks"
              ELSE /\ rpcPc' = "panicked"
                   /\ UNCHANGED acksLeft
    /\ UNCHANGED <<now, clockVars, sysVars, caller, wire, result, delivered>>

\* read_response(&mut reader).unwrap() in the message loop, rpc.rs 114: the
\* loop goes on with a frame, the thread panics on an Err.
unwrap_ignored(res) == "loop"

unwrap(res) == IF IsFrame(res) THEN "loop" ELSE "panicked"

\* The match on the frame, rpc.rs 115-118: cb(msg) for a Message, nothing
\* for a Response.  cbs is the sequence of the calls of cb so far.
dispatch_all(cbs, res) == Append(cbs, res)

dispatch(cbs, res) ==
    IF res.kind = "Message" THEN Append(cbs, res) ELSE cbs

\* subscribe_topics, one iteration of the message loop: rpc.rs 113-119
SubDispatch ==
    /\ caller = "subscribe_topics"
    /\ rpcPc = "loop"
    /\ LET r == read_response(stream)
       IN  /\ Decode(r)
           /\ rpcPc' = unwrap(r.res)
           /\ delivered' = IF IsFrame(r.res) THEN dispatch(delivered, r.res)
                           ELSE delivered
    /\ UNCHANGED <<now, clockVars, sysVars, caller, wire, result, acksLeft>>

NextRpc ==
    \/ ReadResponse
    \/ SendRequest
    \/ SubConnect
    \/ SubAck
    \/ SubDispatch

SpecRpc == InitRpc /\ [][NextRpc]_vars

-----------------------------------------------------------------------------
(* SpecSys: the caller of sync_player_status, the subscribe_signals thread  *)
(* and the thread drawing the ui, sharing the Mutex<AppInner>.  Time may    *)
(* pass between any two steps.  What a status body or a message contains    *)
(* is chosen at the step that applies it, the first step at which it can    *)
(* make a difference.                                                       *)

Songs == {"a", "b"}
Durations == {1}
PollStates == {"paused", "stopped", "playing", "missing", "unknown"}

\* Why send_request or the parsing of its body fails, app.rs 317-326
SyncFailures == {"connect", "disconnected", "push message", "malformed frame",
                 "not json", "bad song", "bad duration", "bad position"}

Msg(topic, body) == [topic |-> topic, body |-> body]

Messages ==
    {Msg("player.state_changed", b) :
        b \in {Arr(<<Num(c)>>) : c \in 0..3} \cup {Arr(<<>>), Body("garbage", <<>>)}}
    \cup {Msg("player.metadata_changed", b) :
        b \in {Arr(<<Meta(x)>>) : x \in Songs} \cup {Arr(<<Num(1)>>)}}
    \cup {Msg("player.duration_changed", b) :
        b \in {Arr(<<Num(d)>>) : d \in Durations \cup {-1}} \cup {Arr(<<Str("x")>>)}}
    \cup {Msg("player.seeked", b) :
        b \in {Arr(<<Num(p)>>) : p \in SysPositions \cup {-1}}
              \cup {Arr(<<Num(1), Num(1)>>), Body("nonutf8", <<>>)}}
    \cup {Msg("live_lyric.sentence_changed", b) :
        b \in {Body("empty", <<>>), Arr(<<Str("la")>>), Arr(<<Num(1)>>)}}
    \cup {Msg("player.volume_changed", b) :
        b \in {Arr(<<Num(1)>>), Body("nonutf8", <<>>)}}

InitSys ==
    /\ now = 0
    /\ ClockAtRest
    /\ RpcAtRest
    /\ SysAtRest

SysTick ==
    /\ now < MaxSysTime
    /\ now' = now + 1
    /\ UNCHANGED <<clockVars, rpcVars, sysVars>>

\* sync_player_status enters send_request: app.rs 317
SyncCall ==
    /\ syncPc = "idle"
    /\ syncPc' = "io"
    /\ UNCHANGED <<now, clockVars, rpcVars, inner, lock, poisoned, poll, muxPc,
                   msg, uiPc, snap, stable, lastBy>>

\* send_request returns and the body is parsed: app.rs 317-326.  Every
\* failure is an unwrap() that panics before the lock is taken.
SyncReturn ==
    /\ syncPc = "io"
    /\ \/ /\ syncPc' = "parsed"
          /\ UNCHANGED poll
       \/ \E why \in SyncFailures :
            /\ syncPc' = "panicked"
            /\ UNCHANGED poll
    /\ UNCHANGED <<now, clockVars, rpcVars, inner, lock, poisoned, muxPc, msg,
                   uiPc, snap, stable, lastBy>>

\* self.inner.lock().unwrap(): app.rs 328
SyncLock ==
    /\ syncPc = "parsed"
    /\ can_lock(lock)
    /\ IF poisoned # "no"
       THEN /\ syncPc' = "panicked"
            /\ UNCHANGED <<lock, poll>>
       ELSE /\ syncPc' = "locked"
            /\ lock' = "sync"
            /\ UNCHANGED poll
    /\ UNCHANGED <<now, clockVars, rpcVars, inner, poisoned, muxPc, msg, uiPc,
                   snap, stable, lastBy>>

\* metadata, on_seeked(position), duration: app.rs 329-331
SyncApplyFields ==
    /\ syncPc = "locked"
    /\ \E x \in Songs, p \in SysPositions, d \in Durations :
        LET pl == [NoPoll EXCEPT
                      !.song = [title |-> x, album_name |-> x, artists_name |-> x],
                      !.position = p, !.duration = d]
        IN  /\ poll' = pl
            /\ inner' = sync_apply_fields(inner, pl, now)
    /\ syncPc' = "applied1"
    /\ UNCHANGED <<now, clockVars, rpcVars, lock, poisoned, muxPc, msg, uiPc,
                   snap, stable, lastBy>>

\* match value["state"].as_str().unwrap(): app.rs 332-346
SyncApplyState ==
    /\ syncPc = "applied1"
    /\ \E st \in PollStates :
        LET r == sync_apply_state(inner, st, now)
        IN  /\ poll' = [poll EXCEPT !.state = st]
            /\ \/ /\ r.how = "done"
                  /\ inner' = r.inner
                  /\ stable' = r.inner
                  /\ syncPc' = "applied2"
                  /\ UNCHANGED <<lock, poisoned>>
               \/ /\ r.how = "relock"
                  /\ syncPc' = "deadlocked"
                  /\ UNCHANGED <<inner, stable, lock, poisoned>>
               \/ /\ r.how \in {"panic", "relock"}
                  /\ syncPc' = "panicked"
                  /\ poisoned' = "sync"
                  /\ lock' = guard_dropped(lock)
                  /\ UNCHANGED <<inner, stable>>
    /\ UNCHANGED <<now, clockVars, rpcVars, muxPc, msg, uiPc, snap, lastBy>>

\* The guard goes out of scope: app.rs 347
SyncUnlock ==
    /\ syncPc = "applied2"
    /\ lock' = guard_dropped(lock)
    /\ syncPc' = "idle"
    /\ poll' = NoPoll
    /\ lastBy' = [by |-> "sync", p |-> poll.position, st |-> poll.state]
    /\ UNCHANGED <<now, clockVars, rpcVars, inner, poisoned, muxPc, msg, uiPc,
                   snap, stable>>

\* subscribe_signals up to the message loop: connect, greeting, the three
\* commands and the three read_response(..).unwrap(): app.rs 261-283
MuxStart ==
    /\ muxPc = "start"
    /\ muxPc' \in {"returned", "panicked", "loop"}
    /\ UNCHANGED <<now, clockVars, rpcVars, inner, lock, poisoned, syncPc, poll,
                   msg, uiPc, snap, stable, lastBy>>

\* read_response(&mut reader).unwrap() in the loop: app.rs 287-291.  A
\* Response is dropped and the loop reads again.
MuxRead ==
    /\ muxPc = "loop"
    /\ muxPc' \in {"msg", "loop", "panicked"}
    /\ UNCHANGED <<now, clockVars, rpcVars, inner, lock, poisoned, syncPc, poll,
                   msg, uiPc, snap, stable, lastBy>>

\* inner.lock().unwrap(): app.rs 289
MuxLock ==
    /\ muxPc = "msg"
    /\ can_lock(lock)
    /\ IF poisoned # "no"
       THEN /\ muxPc' = "panicked"
            /\ UNCHANGED lock
       ELSE /\ muxPc' = "locked"
            /\ lock' = "mux"
    /\ UNCHANGED <<now, clockVars, rpcVars, inner, poisoned, syncPc, poll, msg,
                   uiPc, snap, stable, lastBy>>

\* .on_message(msg): app.rs 289, 185-225
MuxOnMessage ==
    /\ muxPc = "locked"
    /\ \E m \in Messages :
        LET r == on_message(inner, m, now)
        IN  /\ msg' = m
            /\ IF r.panic
               THEN /\ muxPc' = "panicked"
                    /\ poisoned' = "mux"
                    /\ lock' = guard_dropped(lock)
                    /\ inner' = r.inner
                    /\ UNCHANGED stable
               ELSE /\ muxPc' = "applied"
                    /\ inner' = r.inner
                    /\ stable' = r.inner
                    /\ UNCHANGED <<lock, poisoned>>
    /\ UNCHANGED <<now, clockVars, rpcVars, syncPc, poll, uiPc, snap, lastBy>>

\* The temporary guard is dropped at the end of the statement: app.rs 289
MuxUnlock ==
    /\ muxPc = "applied"
    /\ lock' = guard_dropped(lock)
    /\ muxPc' = "loop"
    /\ msg' = NoMsg
    /\ lastBy' = [NoWriter EXCEPT !.by = "push"]
    /\ UNCHANGED <<now, clockVars, rpcVars, inner, poisoned, syncPc, poll, uiPc,
                   snap, stable>>

\* app.inner.lock().unwrap(): app.rs 378
UiLock ==
    /\ uiPc = "idle"
    /\ can_lock(lock)
    /\ IF poisoned # "no"
       THEN /\ uiPc' = "panicked"
            /\ UNCHANGED lock
       ELSE /\ uiPc' = "locked"
            /\ lock' = "ui"
    /\ UNCHANGED <<now, clockVars, rpcVars, inner, poisoned, syncPc, poll, muxPc,
                   msg, snap, stable, lastBy>>

\* The five values are copied out: app.rs 379-383
UiCopy ==
    /\ uiPc = "locked"
    /\ snap' = snapshot(inner, now)
    /\ uiPc' = "copied"
    /\ UNCHANGED <<now, clockVars, rpcVars, inner, lock, poisoned, syncPc, poll,
                   muxPc, msg, stable, lastBy>>

\* drop(inner): app.rs 384.  (src/ui.rs 50-79 locks once more afterwards to
\* draw the playlist; it copies none of the five values and does no I/O.)
UiDrop ==
    /\ uiPc = "copied"
    /\ lock' = guard_dropped(lock)
    /\ uiPc' = "idle"
    /\ snap' = NoSnap
    /\ UNCHANGED <<now, clockVars, rpcVars, inner, poisoned, syncPc, poll, muxPc,
                   msg, stable, lastBy>>

NextSys ==
    \/ SysTick
    \/ SyncCall
    \/ SyncReturn
    \/ SyncLock
    \/ SyncApplyFields
    \/ SyncApplyState
    \/ SyncUnlock
    \/ MuxStart
    \/ MuxRead
    \/ MuxLock
    \/ MuxOnMessage
    \/ MuxUnlock
    \/ UiLock
    \/ UiCopy
    \/ UiDrop

SpecSys == InitSys /\ [][NextSys]_vars

-----------------------------------------------------------------------------
(* Claims about the progress clock                                          *)

\* C1: for every sequence of on_seeked(p) (p >= 0), pause() and resume()
\* calls interleaved with forward passage of time, current() is never
\* negative, and while the clock is not paused a read that follows another
\* read with no on_seeked/pause/resume call in between never returns a
\* smaller value.
C1_NonNegativeMonotone ==
    /\ [](current(progress, now) >= 0)
    /\ [][(lastRead # NoRead /\ lastRead' # NoRead /\ ~progress.paused)
            => lastRead'[1] >= lastRead[1]]_vars

\* C1 witness: a playing clock was read, time passed, and it was read again
\* with a larger result, with no call in between.
C1_Witness ==
    /\ ~progress.paused
    /\ lastOp.op = "on_seeked"
    /\ lastRead # NoRead
    /\ lastRead[1] > progress.position
    /\ now > lastOp.at

\* C10: pause() directly after pause(), with any amount of time elapsed
\* between the two calls, leaves current() and paused as they were after
\* the first call.
C10_PauseIdempotent ==
    [][(lastOp.op = "pause" /\ lastOp'.op = "pause" /\ prevOp' = lastOp)
        => /\ current(progress', now') = current(progress, now)
           /\ progress'.paused = progress.paused]_vars

\* C10 witness: two pause() calls in a row, the second one later than the
\* first, on a clock that had advanced before the first.
C10_Witness ==
    /\ lastOp.op = "pause"
    /\ prevOp.op = "pause"
    /\ lastOp.at > prevOp.at
    /\ progress.position > 0
    /\ progress.paused

\* C11: on_seeked(p) never changes paused.  After it, and until the next
\* on_seeked/pause/resume call, a paused clock reads exactly p at every
\* later time and a playing clock reads p + d at d time units after the
\* seek.
C11_SeekAnchors ==
    lastOp.op = "on_seeked"
        => /\ progress.paused = lastOp.paused
           /\ current(progress, now) =
                  IF lastOp.paused THEN lastOp.pos
                                   ELSE lastOp.pos + (now - lastOp.at)

\* C11 witness: a playing clock that had advanced was seeked to a position
\* above 0 and is read later than the seek.
C11_Witness ==
    /\ lastOp.op = "on_seeked"
    /\ lastOp.pos > 0
    /\ ~lastOp.paused
    /\ prevOp.op = "resume"
    /\ lastOp.at > prevOp.at
    /\ now > lastOp.at
    /\ lastRead # NoRead
    /\ lastRead[1] = lastOp.pos + (now - lastOp.at)

\* C12: a pause() or resume() call at time t, from a playing or a paused
\* clock, leaves current() at t as it was directly before the call.
C12_NoElapsedTimeLost ==
    [][(lastOp'.op \in {"pause", "resume"} /\ prevOp' = lastOp /\ now' = now)
        => current(progress', now') = current(progress, now)]_vars

\* C12 witness: pause() on a playing clock that was seeked above 0 earlier;
\* the anchor position took up the time elapsed since the seek.
C12_Witness ==
    /\ lastOp.op = "pause"
    /\ ~lastOp.paused
    /\ prevOp.op = "on_seeked"
    /\ prevOp.pos > 0
    /\ lastOp.at > prevOp.at
    /\ progress.position = prevOp.pos + (lastOp.at - prevOp.at)

-----------------------------------------------------------------------------
(* Claims about the state store and its threads (SpecSys)                   *)

SyncFailed == syncPc \in {"panicked", "deadlocked"}

\* C2: whenever sync_player_status does not complete successfully
\* (connection failure, disconnection, a message instead of a response, or
\* a body with a missing, ill-typed or unrecognized field, the state field
\* included), metadata, duration, progress and player state have the values
\* the last completed application gave them.
C2_FailedSyncUntouched == SyncFailed => inner = stable

MuxDead == muxPc \in {"panicked", "returned"}

\* C3: after subscribe_signals has died for any reason, a panic inside
\* on_message included, the store remains usable: the mutex is neither held
\* nor poisoned by the dead thread, so that ui and sync_player_status still
\* acquire it, and the values are those of the last completed application.
C3_DeadMuxStoreUsable ==
    MuxDead => /\ lock # "mux"
               /\ poisoned # "mux"
               /\ (~SyncFailed /\ syncPc # "applied1" => inner = stable)

\* C4: what ui copies out of the store is the snapshot of the store as a
\* completed application left it, never of a store in the middle of one.
C4_NoTornSnapshot ==
    [][(uiPc = "locked" /\ uiPc' = "copied") => snap' = snapshot(stable, now)]_vars

\* C4 witness: ui has copied a snapshot written by both writers while the
\* two writers wait for the lock with their next update.
C4_Witness ==
    /\ uiPc = "copied"
    /\ snap.metadata # MetadataNew
    /\ snap.lyric_s = "la"
    /\ snap.state = Playing
    /\ snap.position > 0
    /\ syncPc = "parsed"
    /\ muxPc = "msg"

HoldingGuard ==
    {t \in {"sync", "mux", "ui"} :
        \/ t = "sync" /\ syncPc \in {"locked", "applied1", "applied2", "deadlocked"}
        \/ t = "mux" /\ muxPc \in {"locked", "applied"}
        \/ t = "ui" /\ uiPc \in {"locked", "copied"}}

\* C5: the lock is not held by a thread that is in socket I/O
\* (sync_player_status inside send_request, subscribe_signals connecting or
\* reading a frame), and at most one thread is inside a locked section.
C5_LockNotHeldAcrossIo ==
    /\ syncPc = "io" => lock # "sync"
    /\ muxPc \in {"start", "loop"} => lock # "mux"
    /\ Cardinality(HoldingGuard) <= 1
    /\ \A t \in HoldingGuard : lock = t

\* C5 witness: sync_player_status, having applied an earlier body and
\* released the lock, is inside send_request again while subscribe_signals
\* holds the lock and the ui thread waits.
C5_Witness ==
    /\ syncPc = "io"
    /\ lastBy.by = "sync"
    /\ lock = "mux"
    /\ muxPc = "applied"
    /\ uiPc = "idle"

IsMetadataEvent(m) ==
    /\ m.topic = "player.metadata_changed"
    /\ m.body.form = "array"
    /\ Len(m.body.items) = 1
    /\ m.body.items[1].t = "meta"

\* C6: a player.metadata_changed event handled directly after a completed
\* sync_player_status is applied, not rejected: metadata becomes the
\* event's, the anchor position becomes 0 whatever position the sync set,
\* and paused stays as the sync set it.
C6_StaleMetadataWins ==
    [][(muxPc = "locked" /\ muxPc' # "locked" /\ IsMetadataEvent(msg')
            /\ lastBy.by = "sync")
        => /\ muxPc' = "applied"
           /\ inner'.metadata = Metadata(msg'.body.items[1].s,
                                         <<msg'.body.items[1].s>>,
                                         msg'.body.items[1].s)
           /\ inner'.progress.position = 0
           /\ inner'.progress.ts = now
           /\ inner'.progress.paused = (lastBy.st # "playing")]_vars

\* C6 witness: the event has been applied after a sync that reported a
\* position above 0 and another song while playing.
C6_Witness ==
    /\ muxPc = "applied"
    /\ IsMetadataEvent(msg)
    /\ lastBy.by = "sync"
    /\ lastBy.p > 0
    /\ lastBy.st = "playing"
    /\ inner.progress.position = 0
    /\ ~inner.progress.paused
    /\ inner.metadata.title = msg.body.items[1].s
    /\ inner.duration > 0

\* C14: when the state string of the poll is none of "paused", "stopped",
\* "playing", sync_player_status sets the player state to Stopped and
\* returns with the lock released, so that later reads, push events and
\* sync_player_status calls can go on.
C14_UnknownStateStops ==
    poll.state = "unknown"
        => /\ inner.state = Stopped
           /\ ~SyncFailed
           /\ poisoned # "sync"

\* The step of sync_player_status that completes the application of a poll.
SyncApplied == syncPc = "applied1" /\ syncPc' = "applied2"

PolledState(s) ==
    IF s = "paused" THEN Paused ELSE IF s = "stopped" THEN Stopped ELSE Playing

PolledMetadata(pl) ==
    Metadata(pl.song.title, <<pl.song.artists_name>>, pl.song.album_name)

\* C19 as stated: after a successful sync_player_status whose poll reports
\* position p and state s, whatever the clock was before, metadata and
\* duration are the polled ones, the player state is the one s names, and
\* current() at the moment the application finishes equals p, frozen at p
\* for "paused" and "stopped" and advancing from p for "playing".
C19_SyncSetsPolledPosition ==
    [][SyncApplied
        => /\ inner'.metadata = PolledMetadata(poll')
           /\ inner'.duration = poll'.duration
           /\ inner'.state = PolledState(poll'.state)
           /\ \A d \in 0..MaxSysTime :
                 current(inner'.progress, now' + d) =
                    IF poll'.state = "playing" THEN poll'.position + d
                                               ELSE poll'.position]_vars

\* The time between on_seeked (app.rs 330) and pause or resume (app.rs
\* 335, 339, 343) that a clock that was playing before the call adds to
\* the polled position.
SyncDrift == IF inner.progress.paused THEN 0 ELSE now - inner.progress.ts

\* C19, amended: as stated, but current() at the moment the application
\* finishes equals p only if the clock was paused before the call; if it
\* was playing it equals p plus the time that passed between the on_seeked
\* and the pause or resume of the application.  From that value it is
\* frozen for "paused" and "stopped" and advances for "playing".
C19_SyncApplies ==
    [][SyncApplied
        => /\ inner'.metadata = PolledMetadata(poll')
           /\ inner'.duration = poll'.duration
           /\ inner'.state = PolledState(poll'.state)
           /\ inner'.progress.paused = (poll'.state # "playing")
           /\ \A d \in 0..MaxSysTime :
                 current(inner'.progress, now' + d) =
                    IF poll'.state = "playing"
                    THEN poll'.position + SyncDrift + d
                    ELSE poll'.position + SyncDrift]_vars

\* C19 witness: a poll with position 1 and state "paused" was applied to a
\* clock that was playing; the clock is frozen one time unit above the
\* polled position.
C19_Witness ==
    /\ syncPc = "applied2"
    /\ poll.state = "paused"
    /\ poll.position = 1
    /\ inner.state = Paused
    /\ inner.progress.paused
    /\ inner.progress.position = 2
    /\ inner.metadata = PolledMetadata(poll)
    /\ inner.duration = poll.duration

\* The step of on_message that applies a player.state_changed event.
StateChangedApplied ==
    /\ muxPc = "locked"
    /\ muxPc' = "applied"
    /\ msg'.topic = "player.state_changed"

\* C20: a player.state_changed event with code 0, 1, 2 sets the player
\* state to Stopped, Paused, Playing; Paused freezes the clock at its
\* current value, Playing lets it go on from its current value, Stopped
\* moves the anchor to position 0 and leaves paused as it is; metadata,
\* duration and lyric line are unchanged.
C20_StateChangedApplies ==
    [][StateChangedApplied
        => LET c == msg'.body.items[1].n
               old == inner.progress
               new == inner'.progress
           IN  /\ c \in 0..2
               /\ inner'.state = <<Stopped, Paused, Playing>>[c + 1]
               /\ new.ts = now
               /\ c = 1 => (new.paused /\ new.position = current(old, now))
               /\ c = 2 => (~new.paused /\ new.position = current(old, now))
               /\ c = 0 => (new.paused = old.paused /\ new.position = 0)
               /\ inner'.metadata = inner.metadata
               /\ inner'.duration = inner.duration
               /\ inner'.lyric_s = inner.lyric_s]_vars

\* C20 witness: a state_changed event with code 0 was applied to a clock
\* that was playing and had advanced: the state is Stopped, the anchor is
\* at position 0 and the clock is not paused; the duration set earlier is
\* still there.
C20_Witness ==
    /\ muxPc = "applied"
    /\ msg = Msg("player.state_changed", Arr(<<Num(0)>>))
    /\ inner.state = Stopped
    /\ ~inner.progress.paused
    /\ inner.progress.position = 0
    /\ inner.progress.ts > 0
    /\ inner.duration > 0

\* The step that runs on_message, whether it returns or panics.
OnMessageRan == muxPc = "locked" /\ muxPc' \in {"applied", "panicked"}

KnownTopics ==
    {"player.state_changed", "player.metadata_changed",
     "player.duration_changed", "player.seeked", "live_lyric.sentence_changed"}

\* C21: a message with a topic other than the five known ones, and a
\* live_lyric.sentence_changed message with an empty body, leave the whole
\* store unchanged; player.duration_changed changes only duration;
\* live_lyric.sentence_changed with a body changes only lyric_s;
\* player.seeked changes only the anchor of the clock (paused, state,
\* metadata, duration and lyric_s unchanged).
C21_OwnFieldOnly ==
    [][OnMessageRan
        => /\ msg'.topic \notin KnownTopics => inner' = inner
           /\ (msg'.topic = "live_lyric.sentence_changed"
                  /\ msg'.body.form = "empty") => inner' = inner
           /\ msg'.topic = "player.duration_changed"
                  => inner' = [inner EXCEPT !.duration = inner'.duration]
           /\ msg'.topic = "live_lyric.sentence_changed"
                  => inner' = [inner EXCEPT !.lyric_s = inner'.lyric_s]
           /\ msg'.topic = "player.seeked"
                  => inner' = [inner EXCEPT
                                 !.progress.ts = inner'.progress.ts,
                                 !.progress.position = inner'.progress.position]
       ]_vars

\* C21 witness: a duration_changed event was applied to a store whose
\* metadata, lyric line and clock had been set by earlier events, all of
\* which are still there.
C21_Witness ==
    /\ muxPc = "applied"
    /\ msg = Msg("player.duration_changed", Arr(<<Num(1)>>))
    /\ inner.duration = 1
    /\ inner.lyric_s = "la"
    /\ inner.metadata # MetadataNew
    /\ inner.progress.position = 1

\* C22: in every reachable state of the store, from the initial one and
\* through any sequence of sync_player_status results and push events, the
\* clock is paused whenever the player state is Stopped or Paused and not
\* paused whenever it is Playing; the position does not advance while the
\* state is Stopped.
C22_StateAndClockAgree ==
    /\ stable.state \in {Stopped, Paused} => stable.progress.paused
    /\ stable.state = Playing => ~stable.progress.paused
    /\ stable.state = Stopped
          => current(stable.progress, now + 1) = current(stable.progress, now)

\* C23: a push event that fails to decode (a body that is not UTF-8 or
\* not parsable, the wrong arity or type for a known topic, a state code
\* outside 0..2) changes no field of the store: the values at the panic
\* are the values before the event.
C23_FailedEventChangesNothing ==
    [][(muxPc = "locked" /\ muxPc' = "panicked") => inner' = inner]_vars

\* C23 witness: a state_changed event with code 3 panicked on a store that
\* a poll and an earlier event had filled; the store is as the last
\* completed application left it.
C23_Witness ==
    /\ muxPc = "panicked"
    /\ msg = Msg("player.state_changed", Arr(<<Num(3)>>))
    /\ poisoned = "mux"
    /\ inner = stable
    /\ inner.state = Playing
    /\ inner.lyric_s = "la"
    /\ inner.duration > 0

-----------------------------------------------------------------------------
(* Claims about the frame codec and its callers (SpecRpc)                   *)

\* C7: when zero bytes are available where a status line is expected,
\* read_response yields the Disconnected error as a value and no frame, and
\* neither it nor the caller (send_request, subscribe_topics) panics.
C7_DisconnectNeverPanics ==
    (frame # NoFrame /\ avail = 0)
        => /\ frame.kind = "Err"
           /\ frame.err = "Disconnected"
           /\ rpcPc # "panicked"

FirstFrame == wire.frames[1]

OneDecoded ==
    /\ caller = "read_response"
    /\ wire.frames # <<>>
    /\ frame # NoFrame

\* C8: decoding "ACK OK n CRLF body CRLF" yields Response{ok: true, body}
\* with the body equal to the input; for every valid frame whose tag is
\* "ack" in any case, the result is a Response with the input body whose ok
\* is true exactly when the token after the tag is "ok" in any case.
C8_AckRoundTrip ==
    (OneDecoded /\ ValidFrame(FirstFrame) /\ FirstFrame.tag \in AckTags)
        => /\ Len(decoded) >= 1
           /\ decoded[1].kind = "Response"
           /\ decoded[1].body = FirstFrame.body
           /\ decoded[1].ok = (FirstFrame.second \in OkTokens)
           /\ (FirstFrame.tag = T_ACK /\ FirstFrame.second = T_OK) => decoded[1].ok

\* C8 witness: "ACK OK 2 CRLF body CRLF" with a line feed in the body has
\* been decoded to an ok Response.
C8_Witness ==
    /\ OneDecoded
    /\ FirstFrame = FrameOf(T_ACK, T_OK, <<>>, "exact", PlainStyle,
                            <<"\n", "h">>, CRLF)
    /\ Len(decoded) = 1
    /\ decoded[1].ok
    /\ decoded[1].body = <<"\n", "h">>

\* C9: for every valid MSG frame the decoded message has the token after
\* the tag as topic and the n body bytes as body, however many extra tokens
\* stand between the topic and the length.
C9_MsgTopicAndBody ==
    (OneDecoded /\ ValidFrame(FirstFrame) /\ FirstFrame.tag \in MsgTags)
        => /\ Len(decoded) >= 1
           /\ decoded[1].kind = "Message"
           /\ decoded[1].topic = FirstFrame.second
           /\ decoded[1].body = FirstFrame.body

\* C9 witness: a MSG frame with two extra tokens before the length has been
\* decoded.
C9_Witness ==
    /\ OneDecoded
    /\ FirstFrame.tag = T_msg
    /\ FirstFrame.second = T_seeked
    /\ FirstFrame.extra = <<T_x, T_7>>
    /\ Len(FirstFrame.body) = 2
    /\ Len(decoded) = 1
    /\ decoded[1].topic = T_seeked
    /\ decoded[1].body = FirstFrame.body

Subscribing == caller = "subscribe_topics"

IsMessage(f) == f.kind = "Message"

IsResponse(f) == f.kind = "Response"

\* The frames decoded by the acknowledgement loop of subscribe_topics.
StartupFrames ==
    SubSeq(decoded, 1, IF Len(decoded) < 1 + wire.topics THEN Len(decoded)
                       ELSE 1 + wire.topics)

\* The frames decoded by the message loop of subscribe_topics.
LoopFrames == SubSeq(decoded, 2 + wire.topics, Len(decoded))

\* C13: with N topics subscribe_topics discards exactly N + 1 frames before
\* the message loop and these are acknowledgements only: a message the peer
\* sends before the last acknowledgement is not dropped but reaches the
\* callback.
C13_StartupDiscardsAcksOnly ==
    Subscribing
        => /\ Len(StartupFrames) <= 1 + wire.topics
           /\ \A k \in 1..Len(StartupFrames) : IsResponse(StartupFrames[k])
           /\ delivered = SelectSeq(decoded, IsMessage)

\* The header of a frame description has a last token that is no unsigned
\* integer, or a tag that is neither ACK nor MSG in any case.
BadHeader(f) ==
    \/ ~parse_usize(HeaderTokens(f)[Len(HeaderTokens(f))]).ok
    \/ f.tag \notin AckTags \cup MsgTags

\* C15: a frame whose header has an unparsable last token, or a tag that is
\* neither ACK nor MSG, is rejected: no Response and no Message is produced
\* from it and nothing is delivered.
C15_BadHeaderRejected ==
    (OneDecoded /\ BadHeader(FirstFrame))
        => /\ decoded = <<>>
           /\ delivered = <<>>
           /\ frame.kind \in {"Err", "Panic"}

\* What a valid frame description decodes to.
Decoded(f) ==
    IF f.tag \in AckTags
    THEN [NoFrame EXCEPT !.kind = "Response", !.ok = (f.second \in OkTokens),
                         !.body = f.body]
    ELSE [NoFrame EXCEPT !.kind = "Message", !.topic = f.second,
                         !.body = f.body]

ValidStream ==
    /\ caller = "read_response"
    /\ \A k \in 1..Len(wire.frames) : ValidFrame(wire.frames[k])

\* C16: on a concatenation of valid frames the k-th read_response call
\* returns the k-th frame, with the bodyLength bytes after its header as
\* body, and consumes exactly its header line and bodyLength + 2 bytes, so
\* that the stream is left at the start of frame k + 1; also when a body
\* holds line feeds and when the two trailing bytes are not CRLF.
C16_FrameBoundariesKept ==
    ValidStream
        => /\ Len(decoded) <= Len(wire.frames)
           /\ \A k \in 1..Len(decoded) : decoded[k] = Decoded(wire.frames[k])
           /\ stream = EncodeAll(SubSeq(wire.frames, Len(decoded) + 1,
                                        Len(wire.frames)))
           /\ rpcPc # "panicked"
           /\ rpcPc = "done" => Len(decoded) = Len(wire.frames)

\* C16 witness: three frames were decoded in a row, the first with a line
\* feed as body and "zz" as trailing bytes, the second with an empty body.
C16_Witness ==
    /\ ValidStream
    /\ Len(decoded) = 3
    /\ wire.frames[1].body = <<"\n">>
    /\ wire.frames[1].trail = <<"z", "z">>
    /\ wire.frames[2].body = <<>>
    /\ decoded[3] = Decoded(wire.frames[3])
    /\ IsMessage(decoded[3])
    /\ rpcPc = "done"

\* C17: in the message loop every decoded Message is passed to the callback
\* exactly once, in arrival order; a decoded Response is discarded without
\* a call of the callback, without a change of the store and without
\* ending the loop.
C17_LoopDispatch ==
    /\ [](Subscribing => delivered = SelectSeq(LoopFrames, IsMessage))
    /\ [][(Subscribing /\ rpcPc = "loop" /\ decoded' # decoded)
            => /\ IsMessage(frame') => delivered' = Append(delivered, frame')
               /\ IsResponse(frame')
                    => (delivered' = delivered /\ inner' = inner
                        /\ rpcPc' = "loop")]_vars

\* C17 witness: the message loop has passed two different messages to the
\* callback, in the order they arrived, after the acknowledgements.
C17_Witness ==
    /\ Subscribing
    /\ wire.topics = 1
    /\ Len(decoded) = 4
    /\ IsResponse(decoded[1])
    /\ IsResponse(decoded[2])
    /\ delivered = <<decoded[3], decoded[4]>>
    /\ decoded[3] # decoded[4]
    /\ rpcPc = "loop"

\* C18: the first decode error on the subscription connection, a
\* disconnection included, ends subscribe_topics: the callback is not
\* called again, nothing more is read and no connection is opened.
C18_ErrorEndsSubscription ==
    /\ []((Subscribing /\ frame.kind \in {"Err", "Panic"})
            => rpcPc = "panicked")
    /\ [][(Subscribing /\ rpcPc = "panicked")
            => UNCHANGED <<rpcPc, delivered, decoded, stream, frame>>]_vars

\* C18 witness: after a delivered message a frame with an unparsable length
\* ended the loop with bytes of the peer still unread.
C18_Witness ==
    /\ Subscribing
    /\ rpcPc = "panicked"
    /\ frame.kind = "Panic"
    /\ Len(delivered) = 1
    /\ stream # <<>>

====
